---- MODULE Spec2Model ----
(***************************************************************************)
(* Russian Quiz Remake (RQR): the quiz cursor, the player's score and      *)
(* streak, the story beats and the session controller (Game), with the     *)
(* console game loop that drives them.                                     *)
(*                                                                         *)
(* Spec      any caller of the Game interface, calls in any order.         *)
(* QuizSpec  any caller of the Quiz cursor interface (navigation and       *)
(*           shuffle) together with Game.start / next_question / reset.    *)
(* LoopSpec  ConsoleUI.game_loop driving the Game, one user input at a     *)
(*           time.                                                         *)
(* LoadSpec  Quiz.__init__ on the data files it is given: the questions    *)
(*           file and the three comment files.                             *)
(***************************************************************************)
EXTENDS Integers, Sequences, FiniteSets, TLC

(* ------------------------------ bounds -------------------------------- *)
\* most questions a loaded quiz holds
MaxQuestions == 2
\* options of every question (len(options))
NumOptions == 2
\* most answers recorded on a player between two resets
MaxAnswers == 5

(* ------------------------- program constants -------------------------- *)
POINTS_PER_CORRECT == 10
BONUS_POINTS_STREAK == 5
\* the literal of `if self.player.current_streak >= 3`
STREAK_THRESHOLD == 3

\* Player(name="Алексей"), written in Latin letters
DEFAULT_NAME == "Alexey"
Names == {DEFAULT_NAME, "Maria"}

None == [none |-> TRUE]

VARIABLES
    questions,              \* Quiz.questions: sequence of Question
    current_index,          \* Quiz.current_index
    name,                   \* Player.name
    score,                  \* Player.score
    correct_answers,        \* Player.correct_answers
    wrong_answers,          \* Player.wrong_answers
    current_streak,         \* Player.current_streak
    best_streak,            \* Player.best_streak
    total_questions,        \* Player.total_questions
    is_running,             \* Game.is_running
    beats,                  \* Story: the loaded beats, by trigger_question
    shown_beats,            \* Story.shown_beats
    story_current_question, \* Story.current_question
    call,                   \* the last call made on the core: op, arg, ret
    pc,                     \* ConsoleUI.game_loop: position in the loop
    ui_question,            \* ConsoleUI.game_loop: local `question`
    ui_story_beat,          \* ConsoleUI.game_loop: local `story_beat`
    ui_final_beat,          \* ConsoleUI.game_loop: local `final_beat`
    exit_reason             \* ConsoleUI.game_loop: which break left the loop

quizVars   == <<questions, current_index>>
playerVars == <<name, score, correct_answers, wrong_answers, current_streak,
                best_streak, total_questions>>
counters   == <<score, correct_answers, wrong_answers, current_streak,
                best_streak, total_questions>>
storyVars  == <<beats, shown_beats, story_current_question>>
uiVars     == <<pc, ui_question, ui_story_beat, ui_final_beat, exit_reason>>
vars == <<questions, current_index, name, score, correct_answers, wrong_answers,
          current_streak, best_streak, total_questions, is_running, beats,
          shown_beats, story_current_question, call, pc, ui_question,
          ui_story_beat, ui_final_beat, exit_reason>>

(* ------------------------------ Question ------------------------------ *)
\* a loaded Question: id, number of options, index of the correct option, and
\* the commentary fields with their dataclass defaults
Question(i, c) ==
    [id |-> i, options |-> NumOptions, correct |-> c, intro_comment |-> "",
     correct_comment |-> "", wrong_comment |-> "", emoji |-> "", tags |-> <<>>]

is_correct_answer(question, answer_index) == answer_index = question.correct

(* -------------------------------- Quiz -------------------------------- *)
len_questions == Len(questions)

get_question(index) ==
    IF 0 <= index /\ index < len_questions THEN questions[index + 1] ELSE None

\* a has_next that tests against the count instead of the last index
has_next_Inclusive == current_index < len_questions

has_next == current_index < len_questions - 1

has_previous == current_index > 0

get_progress == <<current_index + 1, len_questions>>

(* ------------------------------- Player ------------------------------- *)
\* a correct answer that compares the best streak with the streak before it
add_correct_answer_BestLags(points, bonus) ==
    /\ score' = score + points + bonus
    /\ correct_answers' = correct_answers + 1
    /\ total_questions' = total_questions + 1
    /\ current_streak' = current_streak + 1
    /\ best_streak' = IF current_streak > best_streak
                      THEN current_streak ELSE best_streak
    /\ UNCHANGED wrong_answers

add_correct_answer(points, bonus) ==
    /\ score' = score + points + bonus
    /\ correct_answers' = correct_answers + 1
    /\ total_questions' = total_questions + 1
    /\ current_streak' = current_streak + 1
    /\ best_streak' = IF current_streak + 1 > best_streak
                      THEN current_streak + 1 ELSE best_streak
    /\ UNCHANGED wrong_answers

\* a wrong answer that also forgets the best streak
add_wrong_answer_ResetsBest ==
    /\ wrong_answers' = wrong_answers + 1
    /\ total_questions' = total_questions + 1
    /\ current_streak' = 0
    /\ best_streak' = 0
    /\ UNCHANGED <<score, correct_answers>>

\* a wrong answer that is not counted as a question answered
add_wrong_answer_Uncounted ==
    /\ wrong_answers' = wrong_answers + 1
    /\ current_streak' = 0
    /\ UNCHANGED <<score, correct_answers, best_streak, total_questions>>

add_wrong_answer ==
    /\ wrong_answers' = wrong_answers + 1
    /\ total_questions' = total_questions + 1
    /\ current_streak' = 0
    /\ UNCHANGED <<score, correct_answers, best_streak>>

\* an accuracy without the guard on an empty history: it reads 100
get_accuracy_Unguarded ==
    IF total_questions = 0 THEN <<100, 1>>
    ELSE <<correct_answers * 100, total_questions>>

\* accuracy as the exact fraction <<numerator, denominator>> of a percentage
get_accuracy ==
    IF total_questions = 0 THEN <<0, 1>>
    ELSE <<correct_answers * 100, total_questions>>

get_stats ==
    [name |-> name, score |-> score, correct_answers |-> correct_answers,
     wrong_answers |-> wrong_answers, total_questions |-> total_questions,
     accuracy |-> get_accuracy, current_streak |-> current_streak,
     best_streak |-> best_streak]

\* a reset that keeps the best streak
Player_reset_KeepsBest ==
    /\ score' = 0
    /\ correct_answers' = 0
    /\ wrong_answers' = 0
    /\ current_streak' = 0
    /\ best_streak' = best_streak
    /\ total_questions' = 0

Player_reset ==
    /\ score' = 0
    /\ correct_answers' = 0
    /\ wrong_answers' = 0
    /\ current_streak' = 0
    /\ best_streak' = 0
    /\ total_questions' = 0

(* -------------------------------- Story ------------------------------- *)
\* the beat whose trigger is question_number, if it was not shown yet
get_story_beat(question_number) ==
    IF question_number \in beats /\ question_number \notin shown_beats
    THEN [trigger_question |-> question_number]
    ELSE None

Story_reset ==
    /\ shown_beats' = {}
    /\ story_current_question' = 0

Story_len == Cardinality(beats)

(* -------------------------------- Game -------------------------------- *)
get_current_question == get_question(current_index)

\* the bonus only for a streak above the threshold
StreakBonusStrict(streak) ==
    IF streak > STREAK_THRESHOLD THEN BONUS_POINTS_STREAK ELSE 0

\* the bonus decided on the streak as it stands after the answer
StreakBonusAfterIncrement(streak) ==
    IF streak + 1 >= STREAK_THRESHOLD THEN BONUS_POINTS_STREAK ELSE 0

\* the bonus Game.answer grants for the streak held before the answer
StreakBonus(streak) ==
    IF streak >= STREAK_THRESHOLD THEN BONUS_POINTS_STREAK ELSE 0

is_finished == ~has_next

\* a beat query at the cursor's 0-based index
check_story_beat_result_ZeroBased == get_story_beat(current_index)

check_story_beat_result == get_story_beat(get_progress[1])

\* a results record that keeps the player's own total_questions
get_results_record_PlayerTotal ==
    get_stats @@
    [is_finished |-> is_finished,
     story_completed |-> (Cardinality(shown_beats) = Story_len)]

get_results_record ==
    [get_stats EXCEPT !.total_questions = len_questions] @@
    [is_finished |-> is_finished,
     story_completed |-> (Cardinality(shown_beats) = Story_len)]

Called(op, arg, ret) == [op |-> op, arg |-> arg, ret |-> ret]

set_player_name(n) ==
    /\ name' = n
    /\ call' = Called("set_player_name", n, None)
    /\ UNCHANGED <<quizVars, counters, is_running, storyVars>>

\* a start that also clears the player's statistics
start_ResetsPlayer ==
    /\ is_running' = TRUE
    /\ current_index' = 0
    /\ Story_reset
    /\ Player_reset
    /\ call' = Called("start", None, None)
    /\ UNCHANGED <<questions, name, beats>>

\* a start that leaves the cursor where it is
start_KeepsCursor ==
    /\ is_running' = TRUE
    /\ Story_reset
    /\ call' = Called("start", None, None)
    /\ UNCHANGED <<quizVars, playerVars, beats>>

start ==
    /\ is_running' = TRUE
    /\ current_index' = 0
    /\ Story_reset
    /\ call' = Called("start", None, None)
    /\ UNCHANGED <<questions, playerVars, beats>>

\* a stop that leaves the session running
stop_KeepsRunning ==
    /\ is_running' = is_running
    /\ call' = Called("stop", None, None)
    /\ UNCHANGED <<quizVars, playerVars, storyVars>>

stop ==
    /\ is_running' = FALSE
    /\ call' = Called("stop", None, None)
    /\ UNCHANGED <<quizVars, playerVars, storyVars>>

Query_get_current_question ==
    /\ call' = Called("get_current_question", None, get_current_question)
    /\ UNCHANGED <<quizVars, playerVars, is_running, storyVars>>

\* an answer that counts a missing question as a wrong answer
answer_CountsMissing(answer_index) ==
    LET question == get_current_question IN
    /\ total_questions < MaxAnswers
    /\ IF question = None
       THEN /\ add_wrong_answer
            /\ call' = Called("answer", answer_index, FALSE)
       ELSE LET is_correct == is_correct_answer(question, answer_index) IN
            /\ IF is_correct
               THEN add_correct_answer(POINTS_PER_CORRECT,
                                       StreakBonus(current_streak))
               ELSE add_wrong_answer
            /\ call' = Called("answer", answer_index, is_correct)
    /\ UNCHANGED <<quizVars, name, is_running, storyVars>>

\* an answer that moves on to the next question when there is one
answer_Advances(answer_index) ==
    LET question == get_current_question IN
    /\ total_questions < MaxAnswers
    /\ IF question = None
       THEN /\ call' = Called("answer", answer_index, FALSE)
            /\ UNCHANGED counters
       ELSE LET is_correct == is_correct_answer(question, answer_index) IN
            /\ IF is_correct
               THEN add_correct_answer(POINTS_PER_CORRECT,
                                       StreakBonus(current_streak))
               ELSE add_wrong_answer
            /\ call' = Called("answer", answer_index, is_correct)
    /\ current_index' = IF has_next THEN current_index + 1 ELSE current_index
    /\ UNCHANGED <<questions, name, is_running, storyVars>>

answer(answer_index) ==
    LET question == get_current_question IN
    /\ total_questions < MaxAnswers
    /\ IF question = None
       THEN /\ call' = Called("answer", answer_index, FALSE)
            /\ UNCHANGED counters
       ELSE LET is_correct == is_correct_answer(question, answer_index) IN
            /\ IF is_correct
               THEN add_correct_answer(POINTS_PER_CORRECT,
                                       StreakBonus(current_streak))
               ELSE add_wrong_answer
            /\ call' = Called("answer", answer_index, is_correct)
    /\ UNCHANGED <<quizVars, name, is_running, storyVars>>

\* an advance that tests against the count instead of the last index
Quiz_get_next_question_PastEnd ==
    IF current_index < len_questions
    THEN [index |-> current_index + 1, ret |-> get_question(current_index + 1)]
    ELSE [index |-> current_index, ret |-> None]

\* Quiz.get_next_question: the cursor it leaves and the question it returns
Quiz_get_next_question ==
    IF current_index < len_questions - 1
    THEN [index |-> current_index + 1, ret |-> questions[current_index + 2]]
    ELSE [index |-> current_index, ret |-> None]

get_next_question ==
    /\ current_index' = Quiz_get_next_question.index
    /\ call' = Called("get_next_question", None, Quiz_get_next_question.ret)
    /\ UNCHANGED <<questions, playerVars, is_running, storyVars>>

\* an advance that counts the story position on even at the last question
next_question_StoryAlways ==
    LET next_q == Quiz_get_next_question.ret IN
    /\ story_current_question < MaxQuestions
    /\ current_index' = Quiz_get_next_question.index
    /\ story_current_question' = story_current_question + 1
    /\ call' = Called("next_question", None, next_q # None)
    /\ UNCHANGED <<questions, playerVars, is_running, beats, shown_beats>>

next_question ==
    LET next_q == Quiz_get_next_question.ret IN
    /\ next_q # None => story_current_question < MaxQuestions
    /\ current_index' = Quiz_get_next_question.index
    /\ story_current_question' =
           IF next_q # None THEN story_current_question + 1
           ELSE story_current_question
    /\ call' = Called("next_question", None, next_q # None)
    /\ UNCHANGED <<questions, playerVars, is_running, beats, shown_beats>>

check_story_beat ==
    LET beat == check_story_beat_result IN
    /\ call' = Called("check_story_beat", None, beat)
    /\ UNCHANGED <<quizVars, playerVars, is_running, storyVars>>

mark_shown(trigger) ==
    /\ shown_beats' = shown_beats \cup {trigger}
    /\ call' = Called("mark_shown", trigger, None)
    /\ UNCHANGED <<quizVars, playerVars, is_running, beats,
                   story_current_question>>

Query_is_finished ==
    /\ call' = Called("is_finished", None, is_finished)
    /\ UNCHANGED <<quizVars, playerVars, is_running, storyVars>>

get_results ==
    /\ call' = Called("get_results", None, get_results_record)
    /\ UNCHANGED <<quizVars, playerVars, is_running, storyVars>>

reset ==
    /\ current_index' = 0
    /\ Player_reset
    /\ Story_reset
    /\ is_running' = FALSE
    /\ call' = Called("reset", None, None)
    /\ UNCHANGED <<questions, name, beats>>

\* a jump that accepts the index equal to the count
go_to_question_Inclusive(index) ==
    /\ IF 0 <= index /\ index <= len_questions
       THEN /\ current_index' = index
            /\ call' = Called("go_to_question", index, TRUE)
       ELSE /\ current_index' = current_index
            /\ call' = Called("go_to_question", index, FALSE)
    /\ UNCHANGED <<questions, playerVars, is_running, storyVars>>

\* a go_to_question that forgets the lower bound
go_to_question_NoLowerCheck(index) ==
    /\ IF index < len_questions
       THEN /\ current_index' = index
            /\ call' = Called("go_to_question", index, TRUE)
       ELSE /\ current_index' = current_index
            /\ call' = Called("go_to_question", index, FALSE)
    /\ UNCHANGED <<questions, playerVars, is_running, storyVars>>

go_to_question(index) ==
    /\ IF 0 <= index /\ index < len_questions
       THEN /\ current_index' = index
            /\ call' = Called("go_to_question", index, TRUE)
       ELSE /\ current_index' = current_index
            /\ call' = Called("go_to_question", index, FALSE)
    /\ UNCHANGED <<questions, playerVars, is_running, storyVars>>

go_to_first ==
    /\ current_index' = 0
    /\ call' = Called("go_to_first", None, None)
    /\ UNCHANGED <<questions, playerVars, is_running, storyVars>>

go_to_last ==
    /\ current_index' = len_questions - 1
    /\ call' = Called("go_to_last", None, None)
    /\ UNCHANGED <<questions, playerVars, is_running, storyVars>>

\* a shuffle that draws every place anew from the questions
Shuffles_WithRepeats(qs) ==
    {[i \in 1..Len(qs) |-> qs[p[i]]] : p \in [1..Len(qs) -> 1..Len(qs)]}

\* the orders random.shuffle can leave the list in
Shuffles(qs) ==
    {[i \in 1..Len(qs) |-> qs[p[i]]] : p \in Permutations(1..Len(qs))}

shuffle ==
    /\ questions' \in Shuffles(questions)
    /\ current_index' = 0
    /\ call' = Called("shuffle", None, None)
    /\ UNCHANGED <<playerVars, is_running, storyVars>>

(* ------------------------- construction (Init) ------------------------ *)
\* the question files a quiz is loaded from: n questions in file order, the
\* correct option of successive questions rotating from option k
QuizInputs ==
    {[i \in 1..n |-> Question(100 + i, (i - 1 + k) % NumOptions)] :
        n \in 0..MaxQuestions, k \in 0..(NumOptions - 1)}

\* the stories a session is built with: beats triggered at the first
\* question and at question MaxQuestions
StoryInputs == SUBSET {1, MaxQuestions}

AnswerIndexes == (-1)..NumOptions
GoToIndexes == (-1)..MaxQuestions

Init ==
    /\ questions \in QuizInputs
    /\ current_index = 0
    /\ name = DEFAULT_NAME
    /\ score = 0
    /\ correct_answers = 0
    /\ wrong_answers = 0
    /\ current_streak = 0
    /\ best_streak = 0
    /\ total_questions = 0
    /\ is_running = FALSE
    /\ beats \in StoryInputs
    /\ shown_beats = {}
    /\ story_current_question = 0
    /\ call = Called("init", None, None)
    /\ pc = "main"
    /\ ui_question = None
    /\ ui_story_beat = None
    /\ ui_final_beat = None
    /\ exit_reason = "none"

(* ------------------- Spec: callers of the Game interface -------------- *)
Next ==
    \/ \E n \in Names : set_player_name(n) /\ UNCHANGED uiVars
    \/ start /\ UNCHANGED uiVars
    \/ stop /\ UNCHANGED uiVars
    \/ Query_get_current_question /\ UNCHANGED uiVars
    \/ \E a \in AnswerIndexes : answer(a) /\ UNCHANGED uiVars
    \/ next_question /\ UNCHANGED uiVars
    \/ check_story_beat /\ UNCHANGED uiVars
    \/ \E b \in beats : mark_shown(b) /\ UNCHANGED uiVars
    \/ Query_is_finished /\ UNCHANGED uiVars
    \/ get_results /\ UNCHANGED uiVars
    \/ reset /\ UNCHANGED uiVars

Spec == Init /\ [][Next]_vars

(* ------------------ QuizSpec: callers of the Quiz cursor -------------- *)
QuizNext ==
    \/ get_next_question /\ UNCHANGED uiVars
    \/ \E i \in GoToIndexes : go_to_question(i) /\ UNCHANGED uiVars
    \/ go_to_first /\ UNCHANGED uiVars
    \/ go_to_last /\ UNCHANGED uiVars
    \/ shuffle /\ UNCHANGED uiVars
    \/ start /\ UNCHANGED uiVars
    \/ next_question /\ UNCHANGED uiVars
    \/ reset /\ UNCHANGED uiVars

QuizSpec == Init /\ [][QuizNext]_vars

(* --------------- LoopSpec: ConsoleUI.game_loop drives the Game -------- *)
\* what the player may type at the answer prompt
UserInputs ==
    {[kind |-> "word", value |-> w] : w \in {"quit", "exit", "q", "abc", ""}}
    \cup {[kind |-> "number", value |-> n] : n \in (-1)..(NumOptions + 1)}

\* a get_answer that returns the number typed, not the 0-based index
get_answer_OneBased(question, input) ==
    IF input.kind = "word" /\ input.value \in {"quit", "exit", "q"}
    THEN [outcome |-> "quit", index |-> None]
    ELSE IF input.kind = "number" /\ 1 <= input.value
                                  /\ input.value <= question.options
         THEN [outcome |-> "answer", index |-> input.value]
         ELSE [outcome |-> "retry", index |-> None]

\* ConsoleUI.get_answer on one line of input: quit, a 0-based index, or ask again
get_answer(question, input) ==
    IF input.kind = "word" /\ input.value \in {"quit", "exit", "q"}
    THEN [outcome |-> "quit", index |-> None]
    ELSE IF input.kind = "number" /\ 1 <= input.value
                                  /\ input.value <= question.options
         THEN [outcome |-> "answer", index |-> input.value - 1]
         ELSE [outcome |-> "retry", index |-> None]

\* what the player may type at "continue?" (the Cyrillic refusals behave as "n")
ContinueInputs == {"", "y", "n", "no"}

ask_continue(response) == response \notin {"n", "no"}

\* self.game.start()
LoopStart ==
    /\ pc = "main"
    /\ start
    /\ pc' = "top"
    /\ UNCHANGED <<ui_question, ui_story_beat, ui_final_beat, exit_reason>>

\* the while test, get_current_question, get_progress and check_story_beat
LoopTop ==
    /\ pc = "top"
    /\ IF ~is_running \/ get_current_question = None
       THEN /\ pc' = "exit"
            /\ exit_reason' = "no_question"
            /\ call' = Called("get_current_question", None, get_current_question)
            /\ UNCHANGED <<quizVars, playerVars, is_running, storyVars,
                           ui_question, ui_story_beat, ui_final_beat>>
       ELSE /\ check_story_beat
            /\ ui_question' = get_current_question
            /\ ui_story_beat' = check_story_beat_result
            /\ pc' = "prompt"
            /\ UNCHANGED <<ui_final_beat, exit_reason>>

\* get_answer keeps asking on input that is no option number
LoopRetry(input) ==
    /\ pc = "prompt"
    /\ get_answer(ui_question, input).outcome = "retry"
    /\ UNCHANGED vars

\* get_answer returns None: break
LoopQuit(input) ==
    /\ pc = "prompt"
    /\ get_answer(ui_question, input).outcome = "quit"
    /\ pc' = "exit"
    /\ exit_reason' = "quit"
    /\ UNCHANGED <<quizVars, playerVars, is_running, storyVars, call,
                   ui_question, ui_story_beat, ui_final_beat>>

\* is_correct = self.game.answer(answer)
LoopSubmit(input) ==
    /\ pc = "prompt"
    /\ get_answer(ui_question, input).outcome = "answer"
    /\ answer(get_answer(ui_question, input).index)
    /\ pc' = "answered"
    /\ UNCHANGED <<ui_question, ui_story_beat, ui_final_beat, exit_reason>>

\* if self.game.is_finished(): print_results, the final check_story_beat, break
LoopAfterAnswer ==
    /\ pc = "answered"
    /\ IF is_finished
       THEN /\ check_story_beat
            /\ ui_final_beat' = check_story_beat_result
            /\ pc' = "exit"
            /\ exit_reason' = "finished"
            /\ UNCHANGED <<ui_question, ui_story_beat>>
       ELSE /\ pc' = "continue"
            /\ call' = Called("is_finished", None, FALSE)
            /\ UNCHANGED <<quizVars, playerVars, is_running, storyVars,
                           ui_question, ui_story_beat, ui_final_beat,
                           exit_reason>>

\* if not self.ask_continue(): print_results, break
LoopDecline(response) ==
    /\ pc = "continue"
    /\ ~ask_continue(response)
    /\ get_results
    /\ pc' = "exit"
    /\ exit_reason' = "declined"
    /\ UNCHANGED <<ui_question, ui_story_beat, ui_final_beat>>

\* a continue that goes round the loop without next_question
LoopAdvance_Stays(response) ==
    /\ pc = "continue"
    /\ ask_continue(response)
    /\ call' = Called("next_question", None, FALSE)
    /\ pc' = "top"
    /\ UNCHANGED <<quizVars, playerVars, is_running, storyVars, ui_question,
                   ui_story_beat, ui_final_beat, exit_reason>>

\* self.game.next_question()
LoopAdvance(response) ==
    /\ pc = "continue"
    /\ ask_continue(response)
    /\ next_question
    /\ pc' = "top"
    /\ UNCHANGED <<ui_question, ui_story_beat, ui_final_beat, exit_reason>>

\* self.game.stop() after the loop
LoopStop ==
    /\ pc = "exit"
    /\ stop
    /\ pc' = "done"
    /\ UNCHANGED <<ui_question, ui_story_beat, ui_final_beat, exit_reason>>

\* the results requested once the loop has ended
LoopResults ==
    /\ pc = "done"
    /\ get_results
    /\ UNCHANGED uiVars

LoopNext ==
    \/ LoopStart
    \/ LoopTop
    \/ \E input \in UserInputs : LoopRetry(input)
    \/ \E input \in UserInputs : LoopQuit(input)
    \/ \E input \in UserInputs : LoopSubmit(input)
    \/ LoopAfterAnswer
    \/ \E response \in ContinueInputs : LoopDecline(response)
    \/ \E response \in ContinueInputs : LoopAdvance(response)
    \/ LoopStop
    \/ LoopResults

LoopSpec == Init /\ [][LoopNext]_vars

\* the loop runs on: every statement is executed in its turn, the answer
\* prompt ends with an option number or a quit word, and the continue prompt
\* is answered
LoopFairness ==
    /\ WF_vars(LoopStart)
    /\ WF_vars(LoopTop)
    /\ WF_vars(\E input \in UserInputs : LoopQuit(input) \/ LoopSubmit(input))
    /\ WF_vars(LoopAfterAnswer)
    /\ WF_vars(\E response \in ContinueInputs :
                  LoopDecline(response) \/ LoopAdvance(response))
    /\ WF_vars(LoopStop)

LoopLive == LoopSpec /\ LoopFairness

(* ---------------- LoadSpec: Quiz.__init__ on its data files ------------ *)
\* dict.get(key, default) on a JSON object: `fields` names the keys it holds
dict_get(data, key, default) ==
    IF key \in data.fields THEN data[key] ELSE default

\* Question.from_dict: absent keys take their defaults, nothing is validated
from_dict(data) ==
    [id |-> dict_get(data, "id", 0),
     options |-> dict_get(data, "options", 0),
     correct |-> dict_get(data, "correct", 0),
     intro_comment |-> "", correct_comment |-> "", wrong_comment |-> "",
     emoji |-> "", tags |-> <<>>]

\* Quiz._load_questions: one Question per record, in file order
_load_questions(records) == [i \in 1..Len(records) |-> from_dict(records[i])]

\* a key of a comments object is a string: its characters, digits as 0..9 and
\* any other character as 10
IsDigit(ch) == ch \in 0..9
CanInt(key) == Len(key) >= 1 /\ \A i \in 1..Len(key) : IsDigit(key[i])

\* int(key) for a key of digits
RECURSIVE int_key(_)
int_key(key) ==
    IF Len(key) = 0 THEN 0
    ELSE 10 * int_key(SubSeq(key, 1, Len(key) - 1)) + key[Len(key)]

\* d[k] = v on a dict held as a function
dict_set(d, k, v) ==
    [x \in (DOMAIN d) \cup {k} |-> IF x = k THEN v ELSE d[x]]

EmptyDict == [x \in {} |-> None]

\* the loop of Quiz._load_intro_comments: intro_comments[int(key)] = data
RECURSIVE load_intro(_, _)
load_intro(entries, d) ==
    IF entries = <<>> THEN d
    ELSE load_intro(Tail(entries),
                    dict_set(d, int_key(Head(entries).key), Head(entries).data))

\* the loop of Quiz._load_correct_comments / _load_wrong_comments:
\* comments[int(key)] = data.get("text", "")
RECURSIVE load_texts(_, _)
load_texts(entries, d) ==
    IF entries = <<>> THEN d
    ELSE load_texts(Tail(entries),
                    dict_set(d, int_key(Head(entries).key),
                             dict_get(Head(entries).data, "text", "")))

\* a comments file that does not exist loads nothing
file_entries(file) == IF file.exists THEN file.comments ELSE <<>>

\* Quiz._apply_comments on one question
\* a merge that fills wrong_comment from the correct-answer comments
apply_comments_to_Crossed(question, intro, correct, wrong) ==
    [question EXCEPT
       !.intro_comment = IF question.id \in DOMAIN intro
                         THEN dict_get(intro[question.id], "text", "") ELSE "",
       !.correct_comment = IF question.id \in DOMAIN correct
                           THEN correct[question.id] ELSE "",
       !.wrong_comment = IF question.id \in DOMAIN correct
                         THEN correct[question.id] ELSE ""]

apply_comments_to(question, intro, correct, wrong) ==
    LET intro_data == IF question.id \in DOMAIN intro THEN intro[question.id]
                      ELSE [fields |-> {}]
        merged == IF intro_data.fields # {}
                  THEN [question EXCEPT
                          !.emoji = dict_get(intro_data, "emoji", ""),
                          !.intro_comment = dict_get(intro_data, "text", ""),
                          !.tags = dict_get(intro_data, "tags", <<>>)]
                  ELSE question
    IN [merged EXCEPT
          !.correct_comment = IF question.id \in DOMAIN correct
                              THEN correct[question.id] ELSE "",
          !.wrong_comment = IF question.id \in DOMAIN wrong
                            THEN wrong[question.id] ELSE ""]

_apply_comments(qs, intro, correct, wrong) ==
    [i \in 1..Len(qs) |-> apply_comments_to(qs[i], intro, correct, wrong)]

\* int(key) raises ValueError on some key of the comment files
KeyError(files) ==
    \E f \in {files.intro, files.correct, files.wrong} :
        \E i \in 1..Len(file_entries(f)) : ~CanInt(file_entries(f)[i].key)

\* Quiz.__init__: the list it leaves in self.questions
Quiz_loaded(files) ==
    IF KeyError(files) THEN _load_questions(files.questions)
    ELSE _apply_comments(_load_questions(files.questions),
                         load_intro(file_entries(files.intro), EmptyDict),
                         load_texts(file_entries(files.correct), EmptyDict),
                         load_texts(file_entries(files.wrong), EmptyDict))

Quiz_init ==
    /\ call.op = "files"
    /\ questions' = Quiz_loaded(call.arg)
    /\ current_index' = 0
    /\ call' = Called("Quiz.__init__", call.arg,
                      IF KeyError(call.arg) THEN [raised |-> "ValueError"]
                      ELSE [raised |-> "nothing"])
    /\ UNCHANGED <<playerVars, is_running, storyVars, uiVars>>

\* the records a questions file may hold: well formed, correct out of range,
\* and records lacking a field
AllFields == {"id", "question", "options", "correct"}
RawRecord(i, c, fs) ==
    [fields |-> fs, id |-> i, options |-> NumOptions, correct |-> c]
RawRecords ==
    {RawRecord(i, c, AllFields) : i \in {101, 102}, c \in {0, NumOptions}}
    \cup {RawRecord(103, NumOptions - 1, AllFields \ {f}) :
             f \in {"options", "correct", "id"}}
QuestionFiles ==
    UNION {[1..n -> RawRecords] : n \in 0..MaxQuestions}

\* the entries a comments file may hold: keys "101", "0101", "102", "999" and
\* "1a"; data with text, emoji and tags, with text alone, or empty
Comment(key, text, fs) ==
    [key |-> key,
     data |-> [fields |-> fs, text |-> text, emoji |-> "e" \o text,
               tags |-> <<text>>]]
FullData == {"text", "emoji", "tags"}
NoFile == [exists |-> FALSE, comments |-> <<>>]
File(entries) == [exists |-> TRUE, comments |-> entries]
CommentFiles ==
    {NoFile, File(<<>>),
     File(<<Comment(<<1, 0, 1>>, "a", FullData)>>),
     File(<<Comment(<<1, 0, 1>>, "a", FullData),
            Comment(<<0, 1, 0, 1>>, "b", {"text"})>>),
     File(<<Comment(<<9, 9, 9>>, "c", FullData),
            Comment(<<1, 0, 2>>, "d", {})>>),
     File(<<Comment(<<9, 9, 9>>, "c", FullData),
            Comment(<<1, 0, 2>>, "d", {"text"})>>),
     File(<<Comment(<<1, 0, 2>>, "d", FullData),
            Comment(<<1, 10>>, "x", FullData)>>)}

\* the data files of one construction: malformed question records with no
\* comment files, or the well-formed question bank with any comment files
QuizFiles ==
    {[questions |-> q, intro |-> NoFile, correct |-> NoFile, wrong |-> NoFile] :
        q \in QuestionFiles}
    \cup {[questions |-> [i \in 1..n |-> RawRecord(100 + i, 0, AllFields)],
           intro |-> a, correct |-> b, wrong |-> c] :
             n \in 0..MaxQuestions, a \in CommentFiles, b \in CommentFiles,
             c \in CommentFiles}

\* Quiz.__init__ entered: self.questions = [], the files still to be read
LoadInit ==
    /\ questions = <<>>
    /\ current_index = 0
    /\ name = DEFAULT_NAME
    /\ score = 0
    /\ correct_answers = 0
    /\ wrong_answers = 0
    /\ current_streak = 0
    /\ best_streak = 0
    /\ total_questions = 0
    /\ is_running = FALSE
    /\ beats = {}
    /\ shown_beats = {}
    /\ story_current_question = 0
    /\ \E files \in QuizFiles : call = Called("files", files, None)
    /\ pc = "main"
    /\ ui_question = None
    /\ ui_story_beat = None
    /\ ui_final_beat = None
    /\ exit_reason = "none"

LoadNext == Quiz_init

LoadSpec == LoadInit /\ [][LoadNext]_vars

(* ------------- PlayerSpec: callers of the Player's methods ------------ *)
\* a Player on its own; call.arg holds the answers recorded since the last
\* reset, TRUE for a correct one
PlayerInit ==
    /\ questions = <<>>
    /\ current_index = 0
    /\ name \in Names
    /\ score = 0
    /\ correct_answers = 0
    /\ wrong_answers = 0
    /\ current_streak = 0
    /\ best_streak = 0
    /\ total_questions = 0
    /\ is_running = FALSE
    /\ beats = {}
    /\ shown_beats = {}
    /\ story_current_question = 0
    /\ call = Called("Player", <<>>, None)
    /\ pc = "main"
    /\ ui_question = None
    /\ ui_story_beat = None
    /\ ui_final_beat = None
    /\ exit_reason = "none"

Player_add_correct_answer(bonus) ==
    /\ Len(call.arg) < MaxAnswers
    /\ add_correct_answer(POINTS_PER_CORRECT, bonus)
    /\ call' = Called("add_correct_answer", Append(call.arg, TRUE), None)
    /\ UNCHANGED <<quizVars, name, is_running, storyVars, uiVars>>

Player_add_wrong_answer ==
    /\ Len(call.arg) < MaxAnswers
    /\ add_wrong_answer
    /\ call' = Called("add_wrong_answer", Append(call.arg, FALSE), None)
    /\ UNCHANGED <<quizVars, name, is_running, storyVars, uiVars>>

Player_get_stats ==
    /\ call' = Called("get_stats", call.arg, get_stats)
    /\ UNCHANGED <<quizVars, playerVars, is_running, storyVars, uiVars>>

Player_do_reset ==
    /\ Player_reset
    /\ call' = Called("reset", <<>>, None)
    /\ UNCHANGED <<quizVars, name, is_running, storyVars, uiVars>>

PlayerNext ==
    \/ \E bonus \in {0, BONUS_POINTS_STREAK} : Player_add_correct_answer(bonus)
    \/ Player_add_wrong_answer
    \/ Player_get_stats
    \/ Player_do_reset

PlayerSpec == PlayerInit /\ [][PlayerNext]_vars

(* ============================== claims =============================== *)
\* the step is a call of Game.answer that returned True
CorrectAnswerStep == call'.op = "answer" /\ call'.ret = TRUE

\* the player has given k correct answers in a row and nothing else since
\* construction or the last reset
FreshRun(k) == wrong_answers = 0 /\ correct_answers = k /\ total_questions = k

\* C1: every correct answer raises the score by exactly 10 when the streak
\* before the call is below 3 and by exactly 15 when it is 3 or more; four
\* correct answers in a row from a fresh player give 10, 20, 30, 45.
C1_ScoreRule ==
    /\ [][CorrectAnswerStep =>
            score' = score + (IF current_streak < 3 THEN 10 ELSE 15)]_vars
    /\ [](\A k \in 1..4 : FreshRun(k) => score = <<10, 20, 30, 45>>[k])

C1_Witness ==
    /\ call.op = "answer" /\ call.ret = TRUE
    /\ FreshRun(4) /\ score = 45

\* C2 as stated: three correct answers in a row from a streak of 0 give the
\* cumulative scores 10, 20, 35 (the third already earns the bonus).
C2_ThirdEarnsBonus ==
    \A k \in 1..3 : FreshRun(k) => score = <<10, 20, 35>>[k]

\* C2 amended: counting the correct answers of a row from 1, an answer earns
\* the bonus exactly when it is the fourth or a later one of its row; three in
\* a row from a fresh player give 10, 20, 30 and the fourth gives 45.
C2_FourthEarnsBonus ==
    /\ [][CorrectAnswerStep =>
            ((score' - score = 15) <=> current_streak' >= 4)]_vars
    /\ [][CorrectAnswerStep => score' - score \in {10, 15}]_vars
    /\ [](\A k \in 1..3 : FreshRun(k) => score = <<10, 20, 30>>[k])

C2_Witness ==
    /\ call.op = "answer" /\ call.ret = TRUE
    /\ FreshRun(3) /\ current_streak = 3 /\ score = 30

\* C3: a wrong answer on a current question sets current_streak to 0, adds 1
\* to wrong_answers and to total_questions, and leaves score, best_streak and
\* correct_answers as they were.
C3_WrongAnswerFrame ==
    [][(call'.op = "answer" /\ call'.ret = FALSE
            /\ get_current_question # None) =>
          /\ current_streak' = 0
          /\ wrong_answers' = wrong_answers + 1
          /\ total_questions' = total_questions + 1
          /\ score' = score
          /\ best_streak' = best_streak
          /\ correct_answers' = correct_answers]_vars

C3_Witness ==
    /\ call.op = "answer" /\ call.ret = FALSE
    /\ wrong_answers >= 1 /\ current_streak = 0
    /\ best_streak >= 2 /\ score >= 20

\* C4: a call of Game.answer made while the session is not running (before
\* start, after stop, after reset) changes none of the player's counters.
C4_AnswerOnlyWhileRunning ==
    [][(call'.op = "answer" /\ ~is_running) => UNCHANGED counters]_vars

\* C5: a story beat fires at most once per session; in particular the two
\* checks the game loop makes at the last question (before the question, and
\* after is_finished) do not both yield the same beat.
C5_BeatFiresOnce ==
    (pc \in {"exit", "done"} /\ exit_reason = "finished" /\ ui_story_beat # None)
        => ui_final_beat # ui_story_beat

\* the cursor is at the last question / before the last question
AtLast == len_questions >= 1 /\ current_index = len_questions - 1
BeforeLast == 0 <= current_index /\ current_index < len_questions - 1

\* C6: at the last question get_next_question returns none, Game.next_question
\* returns False, the cursor stays and has_next is false; before the last
\* question the cursor rises by exactly 1 and the question at the new index is
\* returned.
C6_AdvanceAtBoundary ==
    [][/\ (call'.op = "get_next_question" /\ AtLast) =>
            call'.ret = None /\ current_index' = current_index /\ ~has_next
       /\ (call'.op = "next_question" /\ AtLast) =>
            call'.ret = FALSE /\ current_index' = current_index /\ ~has_next
       /\ (call'.op = "get_next_question" /\ BeforeLast) =>
            /\ current_index' = current_index + 1
            /\ call'.ret = questions[current_index' + 1]
       /\ (call'.op = "next_question" /\ BeforeLast) =>
            /\ current_index' = current_index + 1
            /\ call'.ret = TRUE]_vars

C6_Witness ==
    /\ call.op = "next_question" /\ call.ret = FALSE
    /\ len_questions >= 2 /\ AtLast

\* C7: with at least one question loaded the cursor stays within
\* 0 .. len(questions) - 1 under go_to_first, go_to_last, go_to_question of
\* any integer, get_next_question, shuffle, Game.start and Game.reset.
C7_CursorInRange ==
    len_questions >= 1 =>
        (0 <= current_index /\ current_index <= len_questions - 1)

C7_Witness ==
    /\ call.op = "go_to_question" /\ call.ret = FALSE
    /\ call.arg = len_questions /\ len_questions >= 1
    /\ current_index = len_questions - 1

\* C8: after the player quits mid-session (at the answer prompt or by
\* declining to continue) the results record reports is_finished = false,
\* wherever the cursor stood.
C8_QuitIsNotFinished ==
    (pc = "done" /\ exit_reason \in {"quit", "declined"}
        /\ call.op = "get_results") => call.ret.is_finished = FALSE

\* C9: Game.reset leaves every counter of the player at 0, the cursor at 0 and
\* the session not running, and keeps the player's name.
C9_ResetZeroes ==
    [][call'.op = "reset" =>
          /\ score' = 0 /\ correct_answers' = 0 /\ wrong_answers' = 0
          /\ total_questions' = 0 /\ current_streak' = 0 /\ best_streak' = 0
          /\ current_index' = 0 /\ is_running' = FALSE
          /\ name' = name]_vars

C9_Witness ==
    /\ call.op = "reset" /\ name # DEFAULT_NAME
    /\ score = 0 /\ best_streak = 0 /\ total_questions = 0

\* C10: only Game.answer and Game.reset change the player's counters: start,
\* stop, next_question, check_story_beat, is_finished, get_current_question,
\* get_results and set_player_name leave all six as they were, and reset only
\* zeroes them.
C10_OnlyAnswerScores ==
    [][/\ call'.op \in {"start", "stop", "next_question", "check_story_beat",
                        "is_finished", "get_current_question", "get_results",
                        "set_player_name"} => counters' = counters
       /\ counters' # counters => call'.op \in {"answer", "reset"}
       /\ (counters' # counters /\ call'.op = "reset") =>
             counters' = <<0, 0, 0, 0, 0, 0>>]_vars

C10_Witness ==
    /\ call.op = "start" /\ score >= 45 /\ best_streak >= 4

\* the construction has run to its end on the files in call.arg
Loaded == call.op = "Quiz.__init__" /\ call.ret.raised = "nothing"

\* C11: after a load every loaded question has 0 <= correct < len(options); a
\* record whose correct index is out of range, or that lacks a required field,
\* makes the load fail instead of being loaded or defaulted.
C11_LoadedInRange ==
    call.op = "Quiz.__init__" =>
        /\ \A i \in 1..Len(questions) :
              0 <= questions[i].correct /\ questions[i].correct < questions[i].options
        /\ (\E i \in 1..Len(call.arg.questions) :
               \/ call.arg.questions[i].fields # AllFields
               \/ call.arg.questions[i].correct >= call.arg.questions[i].options)
           => call.ret.raised # "nothing"

\* C12: a load in which one record lacks the options field raises an error and
\* leaves no question loaded.
C12_MissingOptionsFails ==
    (/\ call.op = "Quiz.__init__"
     /\ \E i \in 1..Len(call.arg.questions) :
           "options" \notin call.arg.questions[i].fields)
    => call.ret.raised # "nothing" /\ questions = <<>>

\* the entries of a comments file whose key reads as the number id
Matching(file, id) ==
    {i \in 1..Len(file_entries(file)) : int_key(file_entries(file)[i].key) = id}

\* the data of the last of them
LastData(file, id) ==
    file_entries(file)[CHOOSE i \in Matching(file, id) :
                          \A j \in Matching(file, id) : j <= i].data

TextFor(file, id) ==
    IF Matching(file, id) = {} THEN ""
    ELSE dict_get(LastData(file, id), "text", "")

\* C13: after a completed load each question's intro_comment, correct_comment
\* and wrong_comment is the text of the record of that file with the
\* question's id, or empty when the file has none; a question no intro record
\* matches keeps its default emoji and tags; the questions are those of the
\* questions file, in its order, whatever the comment files hold.
C13_MergeById ==
    Loaded =>
        /\ Len(questions) = Len(call.arg.questions)
        /\ \A i \in 1..Len(questions) :
              /\ questions[i].id = dict_get(call.arg.questions[i], "id", 0)
              /\ questions[i].options = dict_get(call.arg.questions[i], "options", 0)
              /\ questions[i].correct = dict_get(call.arg.questions[i], "correct", 0)
              /\ questions[i].intro_comment = TextFor(call.arg.intro, questions[i].id)
              /\ questions[i].correct_comment = TextFor(call.arg.correct, questions[i].id)
              /\ questions[i].wrong_comment = TextFor(call.arg.wrong, questions[i].id)
              /\ Matching(call.arg.intro, questions[i].id) = {} =>
                    questions[i].emoji = "" /\ questions[i].tags = <<>>

\* a load where one question takes an overwritten correct text, another has no
\* wrong text, and the wrong file holds a record for no question
C13_Witness ==
    /\ Loaded
    /\ Len(questions) = 2
    /\ questions[1].correct_comment = "b"
    /\ questions[1].wrong_comment = ""
    /\ questions[2].wrong_comment = "d"
    /\ questions[2].intro_comment = ""
    /\ Matching(call.arg.wrong, 999) # {}

\* C14: Game.answer with no current question returns False and changes neither
\* a counter of the player nor the cursor nor the questions.
C14_AnswerWithoutQuestion ==
    [][(call'.op = "answer" /\ get_current_question = None) =>
          /\ call'.ret = FALSE
          /\ counters' = counters
          /\ current_index' = current_index
          /\ questions' = questions]_vars

C14_Witness ==
    /\ call.op = "answer" /\ call.ret = FALSE
    /\ get_current_question = None /\ total_questions = 0

\* C15: go_to_question(index) returns True and sets current_index to index
\* exactly when 0 <= index < len(questions); otherwise it returns False and
\* current_index stays.
C15_GoToInRangeOnly ==
    [][call'.op = "go_to_question" =>
          IF 0 <= call'.arg /\ call'.arg < len_questions
          THEN call'.ret = TRUE /\ current_index' = call'.arg
          ELSE call'.ret = FALSE /\ current_index' = current_index]_vars

C15_Witness ==
    /\ call.op = "go_to_question" /\ call.arg < 0 /\ call.ret = FALSE
    /\ current_index >= 1

\* C16: is_finished() is true exactly when get_next_question would return None
\* and leave the cursor, and a next_question step returns False without
\* moving exactly from the states where is_finished() holds.
C16_FinishedIffNoAdvance ==
    /\ [](is_finished <=> (/\ Quiz_get_next_question.ret = None
                           /\ Quiz_get_next_question.index = current_index))
    /\ [][call'.op = "next_question" =>
             /\ is_finished <=> (call'.ret = FALSE)
             /\ is_finished <=> (current_index' = current_index)]_vars

C16_Witness ==
    /\ call.op = "next_question" /\ call.ret = TRUE /\ is_finished
    /\ current_index >= 1

\* C17: after Game.start the session is running, the cursor is 0 and no beat
\* is marked shown, whatever the state before.
C17_StartState ==
    call.op = "start" => is_running /\ current_index = 0 /\ shown_beats = {}

C17_Witness ==
    /\ call.op = "start" /\ total_questions >= 1 /\ beats # {}
    /\ len_questions >= 2

\* C18: the record get_results returns holds the player's statistics of that
\* moment, total_questions = the number of loaded questions, and
\* story_completed = (number of shown beats = number of loaded beats).
C18_ResultsRecord ==
    call.op = "get_results" =>
        /\ call.ret.name = name
        /\ call.ret.score = score
        /\ call.ret.correct_answers = correct_answers
        /\ call.ret.wrong_answers = wrong_answers
        /\ call.ret.current_streak = current_streak
        /\ call.ret.best_streak = best_streak
        /\ call.ret.accuracy = get_accuracy
        /\ call.ret.total_questions = len_questions
        /\ call.ret.story_completed <=> (Cardinality(shown_beats) = Cardinality(beats))

C18_Witness ==
    /\ call.op = "get_results" /\ total_questions > len_questions
    /\ call.ret.story_completed /\ beats # {}

\* C19: every index game_loop passes to Game.answer is one of 0 ..
\* len(options)-1 of the current question.
C19_IndexInRange ==
    (call.op = "answer" /\ pc = "answered") =>
        /\ get_current_question # None
        /\ 0 <= call.arg
        /\ call.arg < get_current_question.options

C19_Witness ==
    /\ call.op = "answer" /\ pc = "answered" /\ call.arg = NumOptions - 1
    /\ current_index >= 1

\* C20: get_accuracy is 0 when total_questions is 0 and otherwise the fraction
\* correct_answers * 100 / total_questions, which lies between 0 and 100.
C20_Accuracy ==
    LET num == get_accuracy[1]
        den == get_accuracy[2]
    IN /\ den > 0
       /\ total_questions = 0 => num = 0
       /\ total_questions # 0 =>
             num * total_questions = correct_answers * 100 * den
       /\ 0 <= num /\ num <= 100 * den

C20_Witness ==
    /\ call.op = "get_results" /\ call.ret.accuracy = <<200, 3>>
    /\ total_questions = 3

\* C21: check_story_beat asks the story for the cursor's 1-based position,
\* current_index + 1: what it returns is the story's answer for that number,
\* and a beat it returns has trigger_question = current_index + 1.
C21_BeatAtOneBasedPosition ==
    call.op = "check_story_beat" =>
        /\ call.ret = get_story_beat(current_index + 1)
        /\ call.ret # None => call.ret.trigger_question = current_index + 1

C21_Witness ==
    /\ call.op = "check_story_beat" /\ call.ret # None
    /\ current_index >= 1 /\ 1 \in beats \ shown_beats

\* the number of places of qs that hold q
CountOf(qs, q) == Cardinality({i \in 1..Len(qs) : qs[i] = q})

\* C22: shuffle leaves current_index = 0 and the same questions, each as many
\* times as before, so their count is the same.
C22_ShuffleKeepsQuestions ==
    [][call'.op = "shuffle" =>
          /\ current_index' = 0
          /\ Len(questions') = Len(questions)
          /\ \A i \in 1..Len(questions) :
                CountOf(questions', questions[i]) = CountOf(questions, questions[i])
          /\ \A i \in 1..Len(questions') :
                CountOf(questions, questions'[i]) = CountOf(questions', questions'[i])]_vars

C22_Witness ==
    /\ call.op = "shuffle" /\ len_questions >= 2
    /\ questions[1].id > questions[2].id /\ current_index = 0

\* C23: with no question loaded the cursor is never negative and get_question
\* returns None, whatever cursor operations were called.
C23_EmptyQuizCursor ==
    len_questions = 0 => (current_index >= 0 /\ get_question(current_index) = None)

\* C24: in game_loop the beat check precedes the prompt, an answer is
\* submitted only at the prompt for the question under the cursor, and the
\* cursor moves only by one, forward, after that question was answered: the
\* answers submitted so far are one per position passed.
C24_TurnOrder ==
    /\ [](pc \in {"main", "top", "prompt"} => total_questions = current_index)
    /\ [](pc \in {"answered", "continue"} => total_questions = current_index + 1)
    /\ [][/\ (pc = "top" /\ pc' = "prompt") =>
                /\ call'.op = "check_story_beat"
                /\ ui_question' = get_current_question
          /\ total_questions' # total_questions =>
                /\ pc = "prompt" /\ pc' = "answered"
                /\ call'.op = "answer"
                /\ ui_question = get_current_question
                /\ current_index' = current_index
          /\ current_index' # current_index =>
                /\ pc = "continue" /\ pc' = "top"
                /\ current_index' = current_index + 1
                /\ total_questions = current_index + 1
                /\ total_questions' = total_questions]_vars

C24_Witness ==
    /\ pc = "answered" /\ current_index = 1 /\ total_questions = 2
    /\ call.op = "answer"

\* C25: when every prompt is answered, game_loop ends; it ends with
\* is_running = FALSE whichever break was taken, and no more answers are
\* submitted than there are questions.
C25_LoopTerminates ==
    /\ <>(pc = "done")
    /\ [](pc = "done" => ~is_running)
    /\ [](total_questions <= len_questions)

C25_Witness ==
    /\ pc = "done" /\ exit_reason = "finished" /\ ~is_running
    /\ total_questions = len_questions /\ len_questions >= 2

\* the number of correct answers at the end of h, back to the last wrong one
RECURSIVE TrailingRun(_)
TrailingRun(h) ==
    IF h = <<>> THEN 0
    ELSE IF ~h[Len(h)] THEN 0
    ELSE 1 + TrailingRun(SubSeq(h, 1, Len(h) - 1))

\* the values current_streak has taken along h
StreakValues(h) == {TrailingRun(SubSeq(h, 1, k)) : k \in 0..Len(h)}

HighWater(h) == CHOOSE m \in StreakValues(h) : \A v \in StreakValues(h) : v <= m

\* C26: current_streak is the number of correct answers since the most recent
\* wrong answer or reset, and best_streak is the largest value current_streak
\* has taken since the last reset.
C26_StreakHighWater ==
    /\ current_streak = TrailingRun(call.arg)
    /\ best_streak = HighWater(call.arg)

C26_Witness ==
    /\ call.op = "add_correct_answer"
    /\ call.arg = <<TRUE, TRUE, FALSE, TRUE>>
    /\ current_streak = 1 /\ best_streak = 2

\* C27: total_questions = correct_answers + wrong_answers,
\* 0 <= current_streak <= best_streak <= correct_answers, and the score lies
\* between 10 and 15 points per correct answer.
C27_PlayerInvariants ==
    /\ total_questions = correct_answers + wrong_answers
    /\ 0 <= current_streak
    /\ current_streak <= best_streak
    /\ best_streak <= correct_answers
    /\ POINTS_PER_CORRECT * correct_answers <= score
    /\ score <= (POINTS_PER_CORRECT + BONUS_POINTS_STREAK) * correct_answers

C27_Witness ==
    /\ score = 45 /\ correct_answers = 4 /\ wrong_answers = 1
    /\ current_streak = 0 /\ best_streak = 4

\* C28: Game.answer leaves the cursor and the order of the questions as they
\* were, so successive answers are scored against the same question.
C28_AnswerKeepsCursor ==
    [][call'.op = "answer" =>
          /\ current_index' = current_index
          /\ questions' = questions
          /\ get_current_question' = get_current_question]_vars

\* more answers counted than there are questions, all on the first question
C28_Witness ==
    /\ call.op = "answer" /\ len_questions >= 1
    /\ total_questions > len_questions /\ current_index = 0
    /\ story_current_question = 0

\* C29: next_question moves the cursor and the story's current_question
\* forward by one together, returning True, or moves neither, returning
\* False; it moves neither exactly when the cursor has no next question.
C29_CursorAndStoryTogether ==
    [][call'.op = "next_question" =>
          IF has_next
          THEN /\ current_index' = current_index + 1
               /\ story_current_question' = story_current_question + 1
               /\ call'.ret = TRUE
          ELSE /\ current_index' = current_index
               /\ story_current_question' = story_current_question
               /\ call'.ret = FALSE]_vars

C29_Witness ==
    /\ call.op = "next_question" /\ call.ret = FALSE
    /\ current_index >= 1 /\ story_current_question = current_index

====
